---- MODULE Spec2Model ----
(***************************************************************************)
(* Model of the two-node telemetry / watchdog system:                      *)
(*   src/Transmissor.c  - transmitter (Pico A): IR commands, watchdog,     *)
(*                        flash diagnostics, telemetry encoder             *)
(*   src/hdmi.c         - receiver (Pico B): streaming decoder,            *)
(*                        supervision loop, watchdog                       *)
(* Three specifications share the module:                                  *)
(*   CodecSpec - send_telemetry's byte layout driven through               *)
(*               receive_telemetry_packet over bounded byte streams        *)
(*   Spec      - the transmitter's boot sequence, control loop, fault      *)
(*               paths and hardware watchdog                               *)
(*   RxSpec    - the receiver's core 0 / core 1 loops and its watchdog     *)
(***************************************************************************)
EXTENDS Integers, Sequences, FiniteSets, TLC

VARIABLES
    \* ---- codec harness (CodecSpec) ----
    cd_in,        \* the values send_telemetry reads (globals, clock, persist)
    cd_scn,       \* what the line does to the frame: noise around it, corruption
    cd_frame,     \* the 22 bytes send_telemetry wrote (<<>> before the send)
    cd_stream,    \* the bytes that travel on the line
    cd_pos,       \* number of stream bytes that reached the receiver's UART
    cd_rd,        \* number of stream bytes the decoder has read
    cd_out,       \* packets receive_telemetry_packet has returned, in order
    cd_ret,       \* return value of the last receive_telemetry_packet call
    \* ---- receiver decoder statics (hdmi.c:314-316) ----
    rx_buffer, rx_index, synced,
    \* ---- transmitter (Spec) ----
    tx,           \* the transmitter: program position, globals, flash,
                  \* watchdog and scratch registers, timers (a record)
    uart_tx,      \* the bytes the step just taken wrote to the UART
    \* ---- receiver (RxSpec) ----
    rx,           \* the receiver: program position, globals, UART FIFO,
                  \* watchdog, clock (a record)
    line          \* bytes on the serial line that have not yet arrived

cdvars  == <<cd_in, cd_scn, cd_frame, cd_stream, cd_pos, cd_rd, cd_out, cd_ret>>
decvars == <<rx_buffer, rx_index, synced>>
txvars  == <<tx, uart_tx>>
rxvars  == <<rx, line>>
allvars == <<cdvars, decvars, txvars, rxvars>>

\* --------------------- constants of the wire format ---------------------
TELEM_HEADER == 170
TELEM_FOOTER == 85
PKT_SIZE     == 22

STATE_OFF     == 0
STATE_ON      == 1
STATE_TEMP_20 == 2
STATE_TEMP_22 == 3
STATE_FAN_1   == 4
STATE_FAN_2   == 5
STATE_MAX     == 6

FALHA_LOOP_INFINITO == 1
FALHA_TEMP_22C      == 2
FALHA_UART_TRAVADA  == 3

\* uint8_t wraps at 2^8.  The uint32_t fields are carried as naturals below
\* 2^31 (TLC's integers are 32-bit signed), so none of them wraps.
U8 == 2 ^ 8

\* --------------------- bounds of the codec harness ---------------------
MaxNoise == 2     \* longest run of noise bytes before / after the frame
MaxBurst == 3     \* most bytes waiting in the UART when the decoder is called

\* --------------------- pure helpers ---------------------
RECURSIVE SumSeq(_)
SumSeq(s) == IF s = <<>> THEN 0 ELSE Head(s) + SumSeq(Tail(s))

\* a uint32_t as it lies in the packed struct on a little-endian core
LE32(x) == << x % 256, (x \div 256) % 256, (x \div 65536) % 256,
              (x \div 16777216) % 256 >>

\* the uint32_t read back from four bytes of the buffer
FromLE32(b, off) == b[off + 1] + 256 * b[off + 2] + 65536 * b[off + 3]
                    + 16777216 * b[off + 4]

\* uint8_t sum of bytes 0 .. sizeof(telemetry_data_t) - 3 (offsets 0..19)
\* faulty variant: the loop starts at i = 1 and leaves the header out of the sum
calculate_checksum_skiphdr(bytes) ==
    SumSeq(SubSeq(bytes, 2, PKT_SIZE - 2)) % U8
calculate_checksum(bytes) ==
    SumSeq(SubSeq(bytes, 1, PKT_SIZE - 2)) % U8

\* the receiver's own copy of the checksum routine
calculate_checksum_rx(bytes) ==
    SumSeq(SubSeq(bytes, 1, PKT_SIZE - 2)) % U8

\* the packed struct as bytes, checksum slot given
StructBytes(t, cks) ==
    << t.header, t.ac_state % U8, t.last_command % U8, t.ir_pending >>
    \o LE32(t.uptime_ms) \o LE32(t.wdt_resets) \o LE32(t.last_fault)
    \o LE32(t.ir_operations) \o << cks, t.footer >>

\* send_telemetry: fill the struct from the globals, compute the checksum
\* over the struct with checksum = 0 (telem = {0}), write the 22 bytes.
\* faulty variant: wdt_resets and last_fault are filled from each other's source
send_telemetry_swapped(g) ==
    LET t == [ header |-> TELEM_HEADER, footer |-> TELEM_FOOTER,
               ac_state |-> g.current_state,
               last_command |-> g.last_command_sent,
               ir_pending |-> IF g.ir_operation_pending THEN 1 ELSE 0,
               uptime_ms |-> g.uptime_ms,
               wdt_resets |-> g.last_fault,
               last_fault |-> g.wdt_count,
               ir_operations |-> g.ir_operation_counter ]
    IN StructBytes(t, calculate_checksum(StructBytes(t, 0)))
send_telemetry(g) ==
    LET t == [ header |-> TELEM_HEADER, footer |-> TELEM_FOOTER,
               ac_state |-> g.current_state,
               last_command |-> g.last_command_sent,
               ir_pending |-> IF g.ir_operation_pending THEN 1 ELSE 0,
               uptime_ms |-> g.uptime_ms,
               wdt_resets |-> g.wdt_count,
               last_fault |-> g.last_fault,
               ir_operations |-> g.ir_operation_counter ]
    IN StructBytes(t, calculate_checksum(StructBytes(t, 0)))

\* memcpy(&temp, rx_buffer, 22): the struct read back from the buffer
PacketOf(b) ==
    [ header |-> b[1], ac_state |-> b[2], last_command |-> b[3],
      ir_pending |-> b[4],
      uptime_ms |-> FromLE32(b, 4), wdt_resets |-> FromLE32(b, 8),
      last_fault |-> FromLE32(b, 12), ir_operations |-> FromLE32(b, 16),
      checksum |-> b[21], footer |-> b[22] ]

\* --------------------- receive_telemetry_packet ---------------------
\* One pass of the while loop body for one byte read from the UART.
\* d = [buf, idx, synced]; the result adds ok (a valid packet is complete).
\* faulty variant: any byte starts a frame, not only the header sentinel
DecodeByte_anysync(d, byte) ==
    IF ~d.synced
    THEN [buf |-> [d.buf EXCEPT ![1] = byte], idx |-> 1,
          synced |-> TRUE, ok |-> FALSE]
    ELSE LET nb == [d.buf EXCEPT ![d.idx + 1] = byte]
             ni == d.idx + 1
         IN IF ni >= PKT_SIZE
            THEN [buf |-> nb, idx |-> 0, synced |-> FALSE,
                  ok |-> /\ nb[PKT_SIZE] = TELEM_FOOTER
                         /\ nb[PKT_SIZE - 1] = calculate_checksum_rx(nb)]
            ELSE [buf |-> nb, idx |-> ni, synced |-> TRUE, ok |-> FALSE]
\* faulty variant: the checksum comparison is missing
DecodeByte_nochecksum(d, byte) ==
    IF ~d.synced
    THEN IF byte = TELEM_HEADER
         THEN [buf |-> [d.buf EXCEPT ![1] = byte], idx |-> 1,
               synced |-> TRUE, ok |-> FALSE]
         ELSE [buf |-> d.buf, idx |-> d.idx, synced |-> FALSE, ok |-> FALSE]
    ELSE LET nb == [d.buf EXCEPT ![d.idx + 1] = byte]
             ni == d.idx + 1
         IN IF ni >= PKT_SIZE
            THEN [buf |-> nb, idx |-> 0, synced |-> FALSE,
                  ok |-> nb[PKT_SIZE] = TELEM_FOOTER]
            ELSE [buf |-> nb, idx |-> ni, synced |-> TRUE, ok |-> FALSE]
\* faulty variant: a completed frame leaves the decoder synchronized
DecodeByte_staysync(d, byte) ==
    IF ~d.synced
    THEN IF byte = TELEM_HEADER
         THEN [buf |-> [d.buf EXCEPT ![1] = byte], idx |-> 1,
               synced |-> TRUE, ok |-> FALSE]
         ELSE [buf |-> d.buf, idx |-> d.idx, synced |-> FALSE, ok |-> FALSE]
    ELSE LET nb == [d.buf EXCEPT ![d.idx + 1] = byte]
             ni == d.idx + 1
         IN IF ni >= PKT_SIZE
            THEN [buf |-> nb, idx |-> 0, synced |-> TRUE,
                  ok |-> /\ nb[PKT_SIZE] = TELEM_FOOTER
                         /\ nb[PKT_SIZE - 1] = calculate_checksum_rx(nb)]
            ELSE [buf |-> nb, idx |-> ni, synced |-> TRUE, ok |-> FALSE]
\* faulty variant: the footer comparison is missing
DecodeByte_nofooter(d, byte) ==
    IF ~d.synced
    THEN IF byte = TELEM_HEADER
         THEN [buf |-> [d.buf EXCEPT ![1] = byte], idx |-> 1,
               synced |-> TRUE, ok |-> FALSE]
         ELSE [buf |-> d.buf, idx |-> d.idx, synced |-> FALSE, ok |-> FALSE]
    ELSE LET nb == [d.buf EXCEPT ![d.idx + 1] = byte]
             ni == d.idx + 1
         IN IF ni >= PKT_SIZE
            THEN [buf |-> nb, idx |-> 0, synced |-> FALSE,
                  ok |-> nb[PKT_SIZE - 1] = calculate_checksum_rx(nb)]
            ELSE [buf |-> nb, idx |-> ni, synced |-> TRUE, ok |-> FALSE]
DecodeByte(d, byte) ==
    IF ~d.synced
    THEN IF byte = TELEM_HEADER
         THEN [buf |-> [d.buf EXCEPT ![1] = byte], idx |-> 1,
               synced |-> TRUE, ok |-> FALSE]
         ELSE [buf |-> d.buf, idx |-> d.idx, synced |-> FALSE, ok |-> FALSE]
    ELSE LET nb == [d.buf EXCEPT ![d.idx + 1] = byte]
             ni == d.idx + 1
         IN IF ni >= PKT_SIZE
            THEN [buf |-> nb, idx |-> 0, synced |-> FALSE,
                  ok |-> /\ nb[PKT_SIZE] = TELEM_FOOTER
                         /\ nb[PKT_SIZE - 1] = calculate_checksum_rx(nb)]
            ELSE [buf |-> nb, idx |-> ni, synced |-> TRUE, ok |-> FALSE]

\* The whole call: read bytes while uart_is_readable, return true at the
\* first valid packet (the unread bytes stay in the UART), false when the
\* UART runs empty.  Result: [buf, idx, synced, ok, used]; when ok the
\* caller's *packet is PacketOf(buf), otherwise it is left untouched.
RECURSIVE RecvLoop(_, _, _)
RecvLoop(d, bytes, used) ==
    IF bytes = <<>>
    THEN [buf |-> d.buf, idx |-> d.idx, synced |-> d.synced, ok |-> FALSE,
          used |-> used]
    ELSE LET n == DecodeByte([buf |-> d.buf, idx |-> d.idx,
                              synced |-> d.synced], Head(bytes))
         IN IF n.ok
            THEN [buf |-> n.buf, idx |-> n.idx, synced |-> n.synced,
                  ok |-> TRUE, used |-> used + 1]
            ELSE RecvLoop(n, Tail(bytes), used + 1)

receive_telemetry_packet(d, bytes) == RecvLoop(d, bytes, 0)

ZeroBuf == [i \in 1..PKT_SIZE |-> 0]
DecInit == /\ rx_buffer = ZeroBuf
           /\ rx_index = 0
           /\ synced = FALSE

\* --------------------- transmitter: time ---------------------
\* Time is counted in ticks of one telemetry interval, the common divisor
\* of every deadline of both programs (500, 1000, 2000, 3000, 5000,
\* 10000 ms).  A delay that is no whole number of ticks (the 10, 50, 100,
\* 150, 200 ms sleeps, a flash or display or IR transfer) ends in the tick
\* it began in or crosses into the next one.
WDT_TIMEOUT_MS        == 5000
TELEMETRY_INTERVAL_MS == 500
DISPLAY_INTERVAL_MS   == 1000
LED_INTERVAL_MS       == 500
TickMs == TELEMETRY_INTERVAL_MS
Ticks(ms) == ms \div TickMs
Durations(ms) == IF ms % TickMs = 0 THEN {Ticks(ms)}
                 ELSE {Ticks(ms), Ticks(ms) + 1}

\* bounds of the transmitter model
MaxBoots   == 3   \* boots recorded in flash after which no reset is injected
MaxOps     == 2   \* IR operations per boot after which no command is typed
MaxIrTicks == 1   \* longest IR transmission, in ticks

\* faulty variant: the watchdog is enabled with the telemetry interval as timeout
WdtTicks_short == Ticks(TELEMETRY_INTERVAL_MS)
WdtTicks == Ticks(WDT_TIMEOUT_MS)

Max2(a, b) == IF a > b THEN a ELSE b
Min2(a, b) == IF a < b THEN a ELSE b

\* d ticks pass: the deadlines come closer, the watchdog counts on
Pass(t, d) ==
    [t EXCEPT !.next_telemetry = Max2(0, @ - d),
              !.next_led       = Max2(0, @ - d),
              !.next_display   = Max2(0, @ - d),
              !.wdt_elapsed    = IF t.wdt_on THEN Min2(WdtTicks, @ + d) ELSE @]

\* the hardware watchdog has run out: the chip resets before any further
\* instruction
Expired(t) == t.wdt_on /\ t.wdt_elapsed >= WdtTicks

Ev(t, e) == [t EXCEPT !.trace = Append(@, e)]

\* watchdog_update()
watchdog_update(t) == Ev([t EXCEPT !.wdt_elapsed = 0], "feed")

\* --------------------- transmitter: state ---------------------
FLASH_MAGIC == "DEADBEEF"
ErasedFlash == [magic |-> "FFFFFFFF", boot_count |-> 0, wdt_count |-> 0,
                last_reset |-> 0, last_fault |-> 0]
ZeroPersist == [magic |-> "00000000", boot_count |-> 0, wdt_count |-> 0,
                last_reset |-> 0, last_fault |-> 0]

\* the .data / .bss image every reset starts from; flash_writes counts
\* the calls of flash_range_program since the reset
RamInit ==
    [ pc |-> "boot", ret |-> "boot", trace |-> <<>>,
      persist |-> ZeroPersist,
      ir_operation_pending |-> FALSE,
      current_state |-> STATE_OFF,
      last_display_state |-> STATE_MAX,
      last_command_sent |-> STATE_OFF,
      ir_operation_counter |-> 0,
      new_state |-> STATE_OFF, fault |-> "none", reboot_wdt |-> FALSE,
      ints |-> TRUE, led_state |-> FALSE, led_red |-> FALSE,
      next_telemetry |-> 0, next_led |-> 0, next_display |-> 0,
      flash_writes |-> 0 ]

\* the chip after power-on: flash as the last power cycle left it
PowerOn(fl) ==
    [ f \in DOMAIN RamInit \cup
            {"flash", "scratch", "wdt_caused", "wdt_on", "wdt_elapsed",
             "irq_on", "hang_fault"} |->
        CASE f = "flash"       -> fl
          [] f = "scratch"     -> <<0, 0>>
          [] f = "wdt_caused"  -> FALSE
          [] f = "wdt_on"      -> FALSE
          [] f = "wdt_elapsed" -> 0
          [] f = "irq_on"      -> TRUE
          [] f = "hang_fault"  -> "none"
          [] OTHER             -> RamInit[f] ]

\* a reset of the chip: RAM is loaded afresh, flash stays; a watchdog reset
\* keeps the scratch registers and sets the reset reason
ResetChip(t, by_wdt) ==
    [ f \in DOMAIN t |->
        CASE f = "flash"       -> t.flash
          [] f = "scratch"     -> IF by_wdt THEN t.scratch ELSE <<0, 0>>
          [] f = "wdt_caused"  -> by_wdt
          [] f = "wdt_on"      -> FALSE
          [] f = "wdt_elapsed" -> 0
          [] f = "irq_on"      -> TRUE
          [] f = "hang_fault"  -> IF by_wdt /\ t.pc = "hang"
                                  THEN t.fault ELSE "none"
          [] OTHER             -> RamInit[f] ]

\* what send_telemetry reads; up is to_ms_since_boot(get_absolute_time())
\* faulty variant: the fault code of the record is not reported
Globals_nofault(t, up) ==
    [ current_state |-> t.current_state,
      last_command_sent |-> t.last_command_sent,
      ir_operation_pending |-> t.ir_operation_pending,
      uptime_ms |-> up,
      wdt_count |-> t.persist.wdt_count,
      last_fault |-> 0,
      ir_operation_counter |-> t.ir_operation_counter ]
Globals(t, up) ==
    [ current_state |-> t.current_state,
      last_command_sent |-> t.last_command_sent,
      ir_operation_pending |-> t.ir_operation_pending,
      uptime_ms |-> up,
      wdt_count |-> t.persist.wdt_count,
      last_fault |-> t.persist.last_fault,
      ir_operation_counter |-> t.ir_operation_counter ]

\* readings of the millisecond clock
ClockSamples == {2720, 1437226410}

TxIdle == /\ tx = PowerOn(ErasedFlash)
          /\ uart_tx = <<>>

TxInit == /\ tx = PowerOn(ErasedFlash)
          /\ uart_tx = <<>>

\* --------------------- transmitter: boot sequence ---------------------
\* main, lines 586-610: stdio, GPIO, UART, display, three blinks
BootStart(t) == [t EXCEPT !.pc = "load"]

\* load_persist_data
\* faulty variant: a record without the magic tag is adopted, tag repaired
load_persist_data_adopt(t) ==
    [t EXCEPT !.persist = [t.flash EXCEPT !.magic = FLASH_MAGIC]]
load_persist_data(t) ==
    IF t.flash.magic = FLASH_MAGIC
    THEN [t EXCEPT !.persist = t.flash]
    ELSE [t EXCEPT !.persist = [magic |-> FLASH_MAGIC, boot_count |-> 0,
                                wdt_count |-> 0, last_reset |-> 0,
                                last_fault |-> 0]]

\* main, lines 615-632: boot cause, counters, scratch mirror
\* faulty variant: the old fault is cleared after a watchdog reset as well
BootDiag_clearfault(t) ==
    LET w  == t.wdt_caused
        p1 == [t.persist EXCEPT !.boot_count = @ + 1]
        p2 == IF w THEN [p1 EXCEPT !.wdt_count = @ + 1, !.last_reset = 1,
                                   !.last_fault = 0]
                   ELSE [p1 EXCEPT !.last_reset = 0, !.last_fault = 0]
    IN [t EXCEPT !.reboot_wdt = w, !.persist = p2,
                 !.scratch = <<p2.wdt_count, p2.last_fault>>]
\* faulty variant: a watchdog reset is not counted
BootDiag_nocount(t) ==
    LET w  == t.wdt_caused
        p1 == [t.persist EXCEPT !.boot_count = @ + 1]
        p2 == IF w THEN [p1 EXCEPT !.last_reset = 1]
                   ELSE [p1 EXCEPT !.last_reset = 0, !.last_fault = 0]
    IN [t EXCEPT !.reboot_wdt = w, !.persist = p2,
                 !.scratch = <<p2.wdt_count, p2.last_fault>>]
BootDiag(t) ==
    LET w  == t.wdt_caused
        p1 == [t.persist EXCEPT !.boot_count = @ + 1]
        p2 == IF w THEN [p1 EXCEPT !.wdt_count = @ + 1, !.last_reset = 1]
                   ELSE [p1 EXCEPT !.last_reset = 0, !.last_fault = 0]
    IN [t EXCEPT !.reboot_wdt = w, !.persist = p2,
                 !.scratch = <<p2.wdt_count, p2.last_fault>>]

\* save_persist_data, one flash operation per step
SaveBegin(t)   == [t EXCEPT !.ints = t.irq_on, !.irq_on = FALSE,
                            !.pc = "save_erase"]
SaveErase(t)   == [t EXCEPT !.flash = ErasedFlash, !.pc = "save_program"]
\* faulty variant: the sector is erased and left blank
SaveProgram_skip(t) == [t EXCEPT !.pc = "save_end"]
SaveProgram(t) == [t EXCEPT !.flash = t.persist, !.flash_writes = @ + 1,
                            !.pc = "save_end"]
\* faulty variant: interrupts are switched on, whatever they were before
SaveEnd_enable(t) == Ev([t EXCEPT !.irq_on = TRUE, !.pc = t.ret], "save")
SaveEnd(t)     == Ev([t EXCEPT !.irq_on = t.ints, !.pc = t.ret], "save")

\* call save_persist_data and continue at r
CallSave(t, r) == [t EXCEPT !.pc = "save_begin", !.ret = r]

\* watchdog_enable(WDT_TIMEOUT_MS, true)
watchdog_enable(t) == [t EXCEPT !.wdt_on = TRUE, !.wdt_elapsed = 0]

\* main, lines 669-671: the three deadlines
ArmTimers(t) ==
    [t EXCEPT !.next_display   = Ticks(DISPLAY_INTERVAL_MS),
              !.next_led       = Ticks(LED_INTERVAL_MS),
              !.next_telemetry = Ticks(TELEMETRY_INTERVAL_MS)]

\* --------------------- transmitter: commands and faults ---------------------
\* what getchar_timeout_us(0) can return ("none" is PICO_ERROR_TIMEOUT)
Inputs == {"none", "1", "2", "3", "4", "5", "6", "F", "U", "S", "0",
           "f", "u", "s", "x"}

\* lines 517-519: lower case to upper case
ToUpper(ch) == CASE ch = "f" -> "F" [] ch = "u" -> "U" [] ch = "s" -> "S"
                 [] OTHER -> ch

\* the state each command character asks for
CommandState(c) == CASE c = "1" -> STATE_ON
                     [] c = "2" -> STATE_OFF
                     [] c = "3" -> STATE_TEMP_22
                     [] c = "4" -> STATE_TEMP_20
                     [] c = "5" -> STATE_FAN_1
                     [] c = "6" -> STATE_FAN_2

\* the code each fault path writes
FaultCode(path) == CASE path = "loop"   -> FALHA_LOOP_INFINITO
                     [] path = "temp22" -> FALHA_TEMP_22C
                     [] path = "uart"   -> FALHA_UART_TRAVADA
                     [] OTHER           -> 0

\* process_uart_input: read one character and dispatch on it
process_uart_input(t, ch) ==
    LET c  == ToUpper(ch)
        t0 == [t EXCEPT !.trace = <<>>]
    IN CASE c \in {"1", "2", "3", "4", "5", "6"} ->
              [t0 EXCEPT !.new_state = CommandState(c), !.pc = "cmd_begin"]
         [] c = "F" -> Ev([t0 EXCEPT !.fault = "loop", !.pc = "f_feed"], "fault")
         [] c = "U" -> Ev([t0 EXCEPT !.fault = "uart", !.pc = "f_feed"], "fault")
         [] OTHER   -> [t0 EXCEPT !.pc = "loop_tel"]

\* execute_ir_command_safe, lines 299-311
\* faulty variant: the 22 degree command is not diverted to the fault path
CmdBegin_nodivert(t) ==
    [watchdog_update([t EXCEPT !.ir_operation_pending = TRUE,
                               !.last_command_sent = t.new_state])
     EXCEPT !.pc = "cmd_ir"]
CmdBegin(t) ==
    LET t1 == watchdog_update(
                [t EXCEPT !.ir_operation_pending = TRUE,
                          !.last_command_sent = t.new_state])
    IN IF t.new_state = STATE_TEMP_22
       THEN Ev([t1 EXCEPT !.fault = "temp22", !.pc = "f_feed"], "fault")
       ELSE [t1 EXCEPT !.pc = "cmd_ir"]

\* lines 337-372: the IR transmission of d ticks, or the default branch
CmdIr(t, d) ==
    IF t.new_state \in {STATE_OFF, STATE_ON, STATE_TEMP_20, STATE_FAN_1,
                        STATE_FAN_2}
    THEN [Pass(Ev(t, "ir"), d) EXCEPT !.pc = "cmd_feed"]
    ELSE [t EXCEPT !.ir_operation_pending = FALSE, !.pc = "loop_tel"]

\* lines 375-378: feed, then sleep_ms(100)
\* faulty variant: the feed after the IR transmission is missing
CmdFeed_nofeed(t, d) == [Pass(t, d) EXCEPT !.pc = "cmd_done"]
CmdFeed(t, d) == [Pass(watchdog_update(t), d) EXCEPT !.pc = "cmd_done"]

\* lines 380-390: state update and the telemetry that reports it
\* faulty variant: a completed command saves the record as well
CmdDone_saves(t) ==
    Ev(Ev([t EXCEPT !.ir_operation_pending = FALSE,
                    !.current_state = t.new_state,
                    !.ir_operation_counter = @ + 1,
                    !.pc = "save_begin", !.ret = "loop_tel"], "state"), "send")
\* faulty variant: the in-flight flag is cleared after the packet is sent
CmdDone_pending(t) ==
    Ev(Ev([t EXCEPT !.current_state = t.new_state,
                    !.ir_operation_counter = @ + 1,
                    !.pc = "loop_tel"], "state"), "send")
CmdDone(t) ==
    Ev(Ev([t EXCEPT !.ir_operation_pending = FALSE,
                    !.current_state = t.new_state,
                    !.ir_operation_counter = @ + 1,
                    !.pc = "loop_tel"], "state"), "send")

\* the fault entry, one statement per step (lines 315-323, 398-406, 421-429)
FaultFeed(t)    == [watchdog_update(t) EXCEPT !.pc = "f_set"]
\* faulty variant: the record is changed in RAM but not written to flash
FaultSet_nosave(t) == Ev([t EXCEPT !.persist.last_fault = FaultCode(t.fault),
                                   !.pc = "f_scratch"], "set_fault")
FaultSet(t)     == CallSave(Ev([t EXCEPT !.persist.last_fault =
                                             FaultCode(t.fault)],
                               "set_fault"), "f_scratch")
\* faulty variant: the scratch word is left as the boot wrote it
FaultScratch_skip(t) == Ev([t EXCEPT !.pc = "f_show"], "scratch")
FaultScratch(t) == Ev([t EXCEPT !.scratch[2] = FaultCode(t.fault),
                                !.pc = "f_show"], "scratch")
FaultShow(t, d) == [Pass(Ev(t, "show"), d) EXCEPT !.pc = "f_send"]
FaultSend(t)    == Ev([t EXCEPT !.pc = "f_delay"], "send")
FaultDelay(t, d) == Ev([Pass(t, d) EXCEPT !.pc = "hang"], "delay")

\* one round of the terminal loop: LED on, sleep, LED off, sleep
\* faulty variant: the terminal loop feeds the watchdog
HangRound_feeds(t, d) == Pass(watchdog_update(t), d)
HangRound(t, d) == Pass(t, d)

\* uart_puts(UART_ID, "XXXXXXXXXXXXXXXXXX") in the transport-stuck loop
\* faulty variant: the loop keeps sending a well-formed packet
StuckBytes_framed ==
    send_telemetry([ current_state |-> STATE_OFF,
                     last_command_sent |-> STATE_OFF,
                     ir_operation_pending |-> FALSE, uptime_ms |-> 0,
                     wdt_count |-> 0, last_fault |-> FALHA_LOOP_INFINITO,
                     ir_operation_counter |-> 0 ])
StuckBytes == [i \in 1..18 |-> 88]

\* --------------------- transmitter: control loop ---------------------
\* lines 679-683
\* faulty variant: the deadline is not re-armed
LoopTelemetry_norearm(t) ==
    IF t.next_telemetry <= 0
    THEN [watchdog_update(Ev(t, "send")) EXCEPT !.pc = "loop_led"]
    ELSE [t EXCEPT !.pc = "loop_led"]
LoopTelemetry(t) ==
    IF t.next_telemetry <= 0
    THEN [watchdog_update(Ev([t EXCEPT !.next_telemetry =
                                          Ticks(TELEMETRY_INTERVAL_MS)],
                             "send"))
          EXCEPT !.pc = "loop_led"]
    ELSE [t EXCEPT !.pc = "loop_led"]

\* lines 686-690
LoopLed(t) ==
    IF t.next_led <= 0
    THEN [t EXCEPT !.led_state = ~@, !.next_led = Ticks(LED_INTERVAL_MS),
                   !.pc = "loop_disp"]
    ELSE [t EXCEPT !.pc = "loop_disp"]

\* lines 693-701; the display transfer takes d ticks
LoopDisplay(t, d) ==
    IF t.next_display <= 0 \/ t.last_display_state # t.current_state
    THEN [watchdog_update(
            [Pass(Ev(t, "show"), d)
             EXCEPT !.last_display_state = t.current_state,
                    !.next_display = Ticks(DISPLAY_INTERVAL_MS)])
          EXCEPT !.pc = "loop_feed"]
    ELSE [t EXCEPT !.pc = "loop_feed"]

\* line 704
\* faulty variant: the loop has no feed of its own
LoopFeed_nofeed(t) == [t EXCEPT !.pc = "loop_sleep"]
LoopFeed(t) == [watchdog_update(t) EXCEPT !.pc = "loop_sleep"]

\* line 706: sleep_ms(10)
LoopSleep(t, d) == [Pass(t, d) EXCEPT !.pc = "input"]

\* --------------------- transmitter: actions ---------------------
\* boots the stored record counts
StoredBoots(t) == IF t.flash.magic = FLASH_MAGIC THEN t.flash.boot_count ELSE 0

\* a program step at position p that leads to state n and writes out
TxStep(p, n, out) ==
    /\ tx.pc = p
    /\ ~Expired(tx)
    /\ tx' = n
    /\ uart_tx' = out
    /\ UNCHANGED <<cdvars, decvars, rxvars>>

TxBoot        == TxStep("boot", BootStart(tx), <<>>)
TxLoad        == TxStep("load", [load_persist_data(tx) EXCEPT !.pc = "diag"], <<>>)
TxDiag        == TxStep("diag", CallSave(BootDiag(tx), "bootshow"), <<>>)
TxSaveBegin   == TxStep("save_begin", SaveBegin(tx), <<>>)
TxSaveErase   == \E d \in Durations(45) :
                    TxStep("save_erase", Pass(SaveErase(tx), d), <<>>)
TxSaveProgram == TxStep("save_program", SaveProgram(tx), <<>>)
TxSaveEnd     == TxStep("save_end", SaveEnd(tx), <<>>)
\* show_boot_diag, sleep_ms(3000), custom_ir_init: true or false
TxBootShow    == \E ok \in BOOLEAN :
                    TxStep("bootshow",
                           [tx EXCEPT !.pc = IF ok THEN "wdt_enable" ELSE "ir_fail"],
                           <<>>)
\* lines 647-652: the red LED blinks forever, the watchdog is not enabled
TxIrFail      == TxStep("ir_fail", [tx EXCEPT !.led_red = ~@], <<>>)
TxWdtEnable   == TxStep("wdt_enable", [watchdog_enable(tx) EXCEPT !.pc = "first"], <<>>)
\* line 662 and lines 669-671
TxFirst       == \E up \in ClockSamples :
                    TxStep("first", [ArmTimers(Ev(tx, "send")) EXCEPT !.pc = "input"],
                           send_telemetry(Globals(tx, up)))

TxInput ==
    \E ch \in Inputs :
        /\ ToUpper(ch) \in {"1", "2", "4", "5", "6"}
              => tx.ir_operation_counter < MaxOps
        /\ ToUpper(ch) \in {"3", "F", "U"} => tx.persist.boot_count < MaxBoots
        /\ TxStep("input", process_uart_input(tx, ch), <<>>)

TxCmdBegin == TxStep("cmd_begin", CmdBegin(tx), <<>>)
TxCmdIr    == \E d \in 0..MaxIrTicks : TxStep("cmd_ir", CmdIr(tx, d), <<>>)
TxCmdFeed  == \E d \in Durations(100) : TxStep("cmd_feed", CmdFeed(tx, d), <<>>)
TxCmdDone  == \E up \in ClockSamples :
                 TxStep("cmd_done", CmdDone(tx),
                        send_telemetry(Globals(CmdDone(tx), up)))

TxFaultFeed    == TxStep("f_feed", FaultFeed(tx), <<>>)
TxFaultSet     == TxStep("f_set", FaultSet(tx), <<>>)
TxFaultScratch == TxStep("f_scratch", FaultScratch(tx), <<>>)
TxFaultShow    == \E d \in Durations(25) : TxStep("f_show", FaultShow(tx, d), <<>>)
TxFaultSend    == \E up \in ClockSamples :
                     TxStep("f_send", FaultSend(tx), send_telemetry(Globals(tx, up)))
TxFaultDelay   == \E d \in Durations(50) : TxStep("f_delay", FaultDelay(tx, d), <<>>)
TxHang         == \E d \in Durations(200) :
                     TxStep("hang", HangRound(tx, d),
                            IF tx.fault = "uart" THEN StuckBytes ELSE <<>>)

TxLoopTelemetry ==
    \E up \in ClockSamples :
        TxStep("loop_tel", LoopTelemetry(tx),
               IF tx.next_telemetry <= 0
               THEN send_telemetry(Globals(tx, up)) ELSE <<>>)
TxLoopLed     == TxStep("loop_led", LoopLed(tx), <<>>)
TxLoopDisplay == \E d \in Durations(25) : TxStep("loop_disp", LoopDisplay(tx, d), <<>>)
TxLoopFeed    == TxStep("loop_feed", LoopFeed(tx), <<>>)
TxLoopSleep   == \E d \in Durations(10) : TxStep("loop_sleep", LoopSleep(tx, d), <<>>)

\* the watchdog timer ran out: the hardware resets the chip
WatchdogReset ==
    /\ Expired(tx)
    /\ tx' = ResetChip(tx, TRUE)
    /\ uart_tx' = <<>>
    /\ UNCHANGED <<cdvars, decvars, rxvars>>

\* power is removed and applied again
PowerCycle ==
    /\ StoredBoots(tx) < MaxBoots
    /\ tx' = ResetChip(tx, FALSE)
    /\ uart_tx' = <<>>
    /\ UNCHANGED <<cdvars, decvars, rxvars>>

TxNext ==
    \/ TxBoot \/ TxLoad \/ TxDiag
    \/ TxSaveBegin \/ TxSaveErase \/ TxSaveProgram \/ TxSaveEnd
    \/ TxBootShow \/ TxIrFail \/ TxWdtEnable \/ TxFirst
    \/ TxInput
    \/ TxCmdBegin \/ TxCmdIr \/ TxCmdFeed \/ TxCmdDone
    \/ TxFaultFeed \/ TxFaultSet \/ TxFaultScratch \/ TxFaultShow
    \/ TxFaultSend \/ TxFaultDelay \/ TxHang
    \/ TxLoopTelemetry \/ TxLoopLed \/ TxLoopDisplay \/ TxLoopFeed
    \/ TxLoopSleep
    \/ WatchdogReset \/ PowerCycle

CodecIdle ==
    /\ cd_in = [ current_state |-> STATE_OFF, last_command_sent |-> STATE_OFF,
                 ir_operation_pending |-> FALSE, uptime_ms |-> 0,
                 wdt_count |-> 0, last_fault |-> 0, ir_operation_counter |-> 0 ]
    /\ cd_scn = [kind |-> "clean", pre |-> <<>>, post |-> <<>>, arg |-> 0]
    /\ cd_frame = <<>>
    /\ cd_stream = <<>>
    /\ cd_pos = 0
    /\ cd_rd = 0
    /\ cd_out = <<>>
    /\ cd_ret = FALSE

\* a well-formed telemetry packet
ValidPacket(b) ==
    /\ Len(b) = PKT_SIZE
    /\ b[1] = TELEM_HEADER
    /\ b[PKT_SIZE] = TELEM_FOOTER
    /\ b[PKT_SIZE - 1] = calculate_checksum_rx(b)

\* --------------------- receiver: state ---------------------
RX_WDT_TIMEOUT_MS == 10000
RX_COMM_TIMEOUT_MS == 2000
RX_BOOT_SLEEP_MS == 4000
RX_DISPLAY_MS == 100

\* bounds of the receiver model
MaxRxTicks == 13  \* receiver uptime, in ticks, after which its clock stops
MaxPkts    == 1   \* valid packets after which the line carries no new frame
MaxRxResets == 1  \* watchdog resets of the receiver after which none is taken
MaxStuckRounds == 2  \* rounds of the transport-stuck loop put on the line

NoTelemetry == PacketOf(ZeroBuf)

\* the receiver after a reset
RxPowerOn ==
    [ pc |-> "boot", now |-> 0,
      latest_telemetry |-> NoTelemetry,
      telemetry_received |-> FALSE,
      last_telemetry_time |-> 0,
      telemetry_packet_count |-> 0,
      next_display_update |-> 0,
      fifo |-> <<>>, log |-> "none",
      wdt_on |-> FALSE, wdt_elapsed |-> 0, wdt_caused |-> FALSE,
      scratch0 |-> 0, core1 |-> FALSE ]

RxIdle == /\ rx = RxPowerOn
          /\ line = <<>>

RxWdtTicks == Ticks(RX_WDT_TIMEOUT_MS)

\* d ticks pass on the receiver
RxPass(r, d) ==
    [r EXCEPT !.now = @ + d,
              !.next_display_update = Max2(0, @ - d),
              !.wdt_elapsed = IF r.wdt_on THEN Min2(RxWdtTicks, @ + d) ELSE @]

rx_watchdog_update(r) == [r EXCEPT !.wdt_elapsed = 0]

\* main, lines 366-386: sleep_ms(4000), reboot diagnosis
RxBootDiag(r) ==
    [RxPass(r, Ticks(RX_BOOT_SLEEP_MS))
     EXCEPT !.scratch0 = IF r.wdt_caused THEN @ + 1 ELSE @,
            !.pc = "init"]

\* main, lines 388-426: DVI and UART set up, sleep_ms(100), the UART is
\* drained, the screen drawn
RxBootInit(r, d) == [RxPass(r, d) EXCEPT !.fifo = <<>>, !.pc = "enable"]

\* main, lines 428-439: watchdog on, core 1 launched, display deadline
RxEnable(r, dl) ==
    [r EXCEPT !.wdt_on = TRUE, !.wdt_elapsed = 0, !.core1 = TRUE,
              !.next_display_update = dl, !.pc = "recv"]

\* main, lines 446-455: a validated packet has been copied to
\* latest_telemetry
\* faulty variant: a packet that reports a fault makes the receiver reboot
OnPacket_reboot(r, pkt) ==
    IF pkt.last_fault # 0
    THEN [RxPowerOn EXCEPT !.wdt_caused = TRUE, !.scratch0 = r.scratch0,
                           !.fifo = r.fifo]
    ELSE [r EXCEPT !.latest_telemetry = pkt,
                   !.telemetry_received = TRUE,
                   !.last_telemetry_time = r.now,
                   !.telemetry_packet_count = @ + 1,
                   !.log = "pkt"]
\* faulty variant: the arrival time is not recorded
OnPacket_nostamp(r, pkt) ==
    [r EXCEPT !.latest_telemetry = pkt,
              !.telemetry_received = TRUE,
              !.telemetry_packet_count = @ + 1,
              !.log = "pkt"]
OnPacket(r, pkt) ==
    [r EXCEPT !.latest_telemetry = pkt,
              !.telemetry_received = TRUE,
              !.last_telemetry_time = r.now,
              !.telemetry_packet_count = @ + 1,
              !.log = "pkt"]

\* main, lines 459-462
RxDisplay(r, dl) ==
    IF r.next_display_update <= 0
    THEN [r EXCEPT !.next_display_update = dl, !.pc = "check", !.log = "none"]
    ELSE [r EXCEPT !.pc = "check", !.log = "none"]

\* main, lines 465-468: the warning is printed, nothing is stored
RxTimeoutCheck(r) ==
    IF r.telemetry_received
       /\ r.now - r.last_telemetry_time > Ticks(RX_COMM_TIMEOUT_MS)
    THEN [r EXCEPT !.log = "warn", !.pc = "feed"]
    ELSE [r EXCEPT !.log = "none", !.pc = "feed"]

\* main, line 471
\* faulty variant: core 0 leaves the feeding to core 1
RxFeed_nofeed(r) == [r EXCEPT !.pc = "sleep", !.log = "none"]
RxFeed(r) == [rx_watchdog_update(r) EXCEPT !.pc = "sleep", !.log = "none"]

\* main, line 473
RxSleep(r, d) == [RxPass(r, d) EXCEPT !.pc = "recv"]

\* core1_main, lines 287-309: one frame rendered, then the feed
\* faulty variant: core 1 renders and does not feed
Core1Frame_nofeed(r) == r
Core1Frame(r) == rx_watchdog_update(r)

\* --------------------- receiver: the serial line ---------------------
\* frames a transmitter can put on the line, one per fault code, and a
\* frame with a broken footer
LineGlobals(f) ==
    [ current_state |-> STATE_ON, last_command_sent |-> STATE_ON,
      ir_operation_pending |-> FALSE, uptime_ms |-> 2720,
      wdt_count |-> 0, last_fault |-> f, ir_operation_counter |-> 1 ]
LineFrames ==
    { send_telemetry(LineGlobals(f)) : f \in 0..3 }
    \cup { [send_telemetry(LineGlobals(0)) EXCEPT ![PKT_SIZE] = 0] }

\* --------------------- receiver: actions ---------------------
RxStep(p, n) ==
    /\ rx.pc = p
    /\ rx' = n
    /\ UNCHANGED <<line, decvars, cdvars, txvars>>

RxBoot     == RxStep("boot", RxBootDiag(rx))
RxInit2    == \E d \in Durations(110) : RxStep("init", RxBootInit(rx, d))
RxEnableWd == \E dl \in Durations(RX_DISPLAY_MS) : RxStep("enable", RxEnable(rx, dl))

\* main, line 445 with its if-body: one call of receive_telemetry_packet
RxRecv ==
    /\ rx.pc = "recv"
    /\ LET r == receive_telemetry_packet(
                    [buf |-> rx_buffer, idx |-> rx_index, synced |-> synced],
                    rx.fifo)
           rest == [rx EXCEPT !.fifo = SubSeq(@, r.used + 1, Len(@)),
                              !.pc = "disp", !.log = "none"]
       IN /\ rx_buffer' = r.buf
          /\ rx_index' = r.idx
          /\ synced' = r.synced
          /\ rx' = IF r.ok THEN OnPacket(rest, PacketOf(r.buf)) ELSE rest
    /\ UNCHANGED <<line, cdvars, txvars>>

RxDisp     == \E dl \in Durations(RX_DISPLAY_MS) : RxStep("disp", RxDisplay(rx, dl))
RxCheck    == RxStep("check", RxTimeoutCheck(rx))
RxFeedWd   == RxStep("feed", RxFeed(rx))
RxSleepMs  == \E d \in Durations(10) :
                 /\ d > 0 => rx.now < MaxRxTicks
                 /\ RxStep("sleep", RxSleep(rx, d))
RxCore1    == /\ rx.core1
              /\ rx' = Core1Frame(rx)
              /\ UNCHANGED <<line, decvars, cdvars, txvars>>

\* the transmitter starts a frame (or a burst of stuck bytes)
LineStart ==
    /\ line = <<>>
    /\ rx.telemetry_packet_count < MaxPkts
    /\ \E f \in LineFrames : line' = f
    /\ UNCHANGED <<rx, decvars, cdvars, txvars>>

\* the next bytes of the frame reach the receiver's UART FIFO; before the
\* UART is initialised they are lost.  The loop drains the FIFO every
\* 10 ms and a frame takes 2 ms on the wire, so the FIFO never holds more
\* than one frame's worth of bytes.
LineDeliver ==
    /\ line # <<>>
    /\ \E n \in {10, Len(line)} :
          /\ n <= Len(line)
          /\ Len(rx.fifo) + n <= PKT_SIZE
          /\ line' = SubSeq(line, n + 1, Len(line))
          /\ rx' = IF rx.pc \in {"boot", "init"} THEN rx
                   ELSE [rx EXCEPT !.fifo = @ \o SubSeq(line, 1, n)]
    /\ UNCHANGED <<decvars, cdvars, txvars>>

RxNext ==
    \/ RxBoot \/ RxInit2 \/ RxEnableWd
    \/ RxRecv \/ RxDisp \/ RxCheck \/ RxFeedWd \/ RxSleepMs
    \/ RxCore1
    \/ LineStart \/ LineDeliver

RxInit == RxIdle /\ DecInit /\ CodecIdle /\ TxIdle
RxSpec == RxInit /\ [][RxNext]_allvars

\* --------------------- claims about the receiver ---------------------
\* the step just taken validated a packet whose fault field is not zero
RecvResult ==
    receive_telemetry_packet(
        [buf |-> rx_buffer, idx |-> rx_index, synced |-> synced], rx.fifo)
FaultPacketStep ==
    /\ rx.pc = "recv"
    /\ rx'.pc # "recv"
    /\ RecvResult.ok
    /\ PacketOf(RecvResult.buf).last_fault \in 1..3

\* C9: a validated packet with a non-zero fault field that arrives while
\* the receiver's uptime is below 5000 ms never makes the receiver reboot:
\* the packet is recorded and the loop goes on, also in every later step.
C9_NoRebootInGrace ==
    /\ [][(FaultPacketStep /\ rx.now < Ticks(5000)) =>
             (/\ rx'.pc = "disp"
              /\ rx'.now = rx.now
              /\ rx'.wdt_on
              /\ rx'.latest_telemetry = PacketOf(RecvResult.buf))]_allvars
    /\ [][(rx.telemetry_received /\ rx.latest_telemetry.last_fault # 0
           /\ rx.last_telemetry_time < Ticks(5000)) =>
             (rx'.pc # "boot" /\ rx'.telemetry_received)]_allvars
C9_Witness ==
    /\ rx.telemetry_received
    /\ rx.latest_telemetry.last_fault = 2
    /\ rx.last_telemetry_time < Ticks(5000)
    /\ rx.pc = "sleep"
    /\ rx.now > rx.last_telemetry_time

\* C10 (as claimed): a validated packet with fault field 1, 2 or 3 that
\* arrives when the receiver's uptime exceeds 5000 ms makes the receiver
\* reboot at once.
C10_RebootOnRemoteFault ==
    [][(FaultPacketStep /\ rx.now > Ticks(5000)) => rx'.pc = "boot"]_allvars
\* the case of C10: a fault packet validated after 5000 ms of uptime, and
\* the receiver at the next statement of its loop
C10_Witness ==
    /\ rx.pc = "disp"
    /\ rx.log = "pkt"
    /\ rx.latest_telemetry.last_fault \in 1..3
    /\ rx.last_telemetry_time > Ticks(5000)
    /\ rx.now = rx.last_telemetry_time

\* the step just taken is the timeout test of an iteration in which the
\* last valid packet is more than the communication timeout old
TimeoutStep ==
    /\ rx.pc = "check"
    /\ rx'.pc = "feed"
    /\ rx.telemetry_received
    /\ rx.now - rx.last_telemetry_time > Ticks(RX_COMM_TIMEOUT_MS)

\* C11 (as claimed): when the last valid packet is older than the
\* communication timeout, the timeout test turns the live status
\* (telemetry_received) from true to false.
C11_LiveFlipsAtTimeout ==
    [][TimeoutStep => ~rx'.telemetry_received]_allvars
\* the case of C11: the timeout test has just found the last packet too
\* old and printed its warning
C11_Witness ==
    /\ rx.pc = "feed"
    /\ rx.log = "warn"
    /\ rx.telemetry_received
    /\ rx.now - rx.last_telemetry_time > Ticks(RX_COMM_TIMEOUT_MS)

\* the step just taken is one call of receive_telemetry_packet with the
\* statements that depend on its result
RecvStep == rx.pc = "recv" /\ rx'.pc # "recv"
\* live flag, arrival time, packet counter and latest telemetry
PacketState(r) ==
    <<r.telemetry_received, r.last_telemetry_time,
      r.telemetry_packet_count, r.latest_telemetry>>

\* C12 (amended): a call that validates a packet sets the live flag, sets
\* the arrival time to the current time, adds exactly one to the packet
\* counter and stores the packet; it does not touch the watchdog, which is
\* fed by the unconditional feed at the end of the iteration.  A call
\* that yields no packet, and every other step, leaves live flag, arrival
\* time, packet counter and latest telemetry unchanged.
C12_PacketEffect ==
    /\ [][(RecvStep /\ RecvResult.ok) =>
             /\ rx'.telemetry_received
             /\ rx'.last_telemetry_time = rx.now
             /\ rx'.telemetry_packet_count = rx.telemetry_packet_count + 1
             /\ rx'.latest_telemetry = PacketOf(RecvResult.buf)
             /\ rx'.wdt_elapsed = rx.wdt_elapsed]_allvars
    /\ [][~(RecvStep /\ RecvResult.ok) =>
             PacketState(rx') = PacketState(rx)]_allvars
C12_Witness ==
    /\ rx.pc = "disp"
    /\ rx.log = "pkt"
    /\ rx.telemetry_packet_count = 1
    /\ rx.last_telemetry_time = rx.now
    /\ rx.wdt_elapsed > 0
\* C12 (as claimed): the call that validates a packet also feeds the
\* watchdog.
C12_PacketFeeds ==
    [][(RecvStep /\ RecvResult.ok) =>
          (/\ rx'.telemetry_received
           /\ rx'.last_telemetry_time = rx.now
           /\ rx'.telemetry_packet_count = rx.telemetry_packet_count + 1
           /\ rx'.wdt_elapsed = 0)]_allvars

\* --------------------- command harness (CmdSpec) ---------------------
\* process_uart_input and execute_ir_command_safe called in a running
\* transmitter, the latter with every state code a caller can pass,
\* the ones no case of its switch names included
ValidTargets == {STATE_OFF, STATE_ON, STATE_TEMP_20, STATE_FAN_1, STATE_FAN_2}
StateCodes   == STATE_OFF .. (STATE_MAX + 1)
InvalidCode(c) == c \notin ValidTargets \cup {STATE_TEMP_22}

\* the record a first boot leaves in flash
FirstBootRecord ==
    [magic |-> FLASH_MAGIC, boot_count |-> 1, wdt_count |-> 0,
     last_reset |-> 0, last_fault |-> 0]

\* the transmitter in its control loop: cs is the appliance state, cnt
\* the operations done, ns the argument of the call, w the watchdog count
Running(p, cs, cnt, ns, w) ==
    [PowerOn(FirstBootRecord)
     EXCEPT !.pc = p, !.persist = FirstBootRecord,
            !.wdt_on = TRUE, !.wdt_elapsed = w, !.flash_writes = 1,
            !.current_state = cs, !.last_command_sent = cs,
            !.last_display_state = cs,
            !.ir_operation_counter = cnt, !.new_state = ns,
            !.next_display = Ticks(DISPLAY_INTERVAL_MS),
            !.next_led = Ticks(LED_INTERVAL_MS),
            !.next_telemetry = Ticks(TELEMETRY_INTERVAL_MS)]

CmdInit ==
    /\ \E cs \in ValidTargets, cnt \in 0..MaxOps, w \in 0..1 :
          /\ cnt = 0 => cs = STATE_OFF
          /\ \/ tx = Running("input", cs, cnt, cs, w)
             \/ \E ns \in StateCodes : tx = Running("cmd_begin", cs, cnt, ns, w)
    /\ uart_tx = <<>>
    /\ CodecIdle /\ DecInit /\ RxIdle

CmdNext == TxInput \/ TxCmdBegin \/ TxCmdIr \/ TxCmdFeed \/ TxCmdDone
CmdSpec == CmdInit /\ [][CmdNext]_allvars

\* the step just taken belongs to the handling of an input that is no
\* command, or of a state code that is none of the switch's cases
RejectStep ==
    \/ tx.pc = "input" /\ tx'.pc = "loop_tel"
    \/ tx.pc \in {"cmd_begin", "cmd_ir"} /\ InvalidCode(tx.new_state)

CmdStep ==
    /\ tx.pc \in {"cmd_begin", "cmd_ir", "cmd_feed", "cmd_done"}
    /\ tx'.pc \in {"cmd_ir", "cmd_feed", "cmd_done", "loop_tel"}
    /\ tx.new_state \in ValidTargets

\* C14: a non-faulting command runs feed, IR action, feed, state update
\* and telemetry in this order and nothing else; the update sets the
\* appliance state to the target, clears the in-flight flag and adds
\* exactly one to the operation counter; only the last statement writes
\* to the UART, one packet that reports the new state, last command =
\* target, in-flight = 0 and the new counter.
C14_CommandSequence ==
    /\ [](tx.pc = "loop_tel" /\ tx.trace # <<>> =>
            /\ tx.trace = <<"feed", "ir", "feed", "state", "send">>
            /\ tx.current_state = tx.new_state
            /\ tx.last_command_sent = tx.new_state
            /\ ~tx.ir_operation_pending
            /\ ValidPacket(uart_tx)
            /\ PacketOf(uart_tx).ac_state = tx.new_state
            /\ PacketOf(uart_tx).last_command = tx.new_state
            /\ PacketOf(uart_tx).ir_pending = 0
            /\ PacketOf(uart_tx).ir_operations = tx.ir_operation_counter)
    /\ [][CmdStep =>
            IF tx.pc = "cmd_done"
            THEN tx'.ir_operation_counter = tx.ir_operation_counter + 1
            ELSE /\ tx'.ir_operation_counter = tx.ir_operation_counter
                 /\ tx'.current_state = tx.current_state
                 /\ uart_tx' = <<>>]_allvars
C14_Witness ==
    /\ tx.pc = "loop_tel"
    /\ tx.trace = <<"feed", "ir", "feed", "state", "send">>
    /\ tx.current_state = STATE_FAN_1
    /\ tx.ir_operation_counter = 2
    /\ PacketOf(uart_tx).ir_operations = 2

\* C15: every iteration of the control loop that does not enter a fault
\* path feeds the watchdog: the only way to the sleep that ends an
\* iteration is the feed of line 704, which is taken whatever the timers
\* did, and the only way to the next iteration is that sleep.
C15_LoopAlwaysFeeds ==
    /\ [](tx.pc = "loop_sleep" =>
            /\ tx.wdt_elapsed = 0
            /\ tx.trace # <<>>
            /\ tx.trace[Len(tx.trace)] = "feed")
    /\ [][tx.pc = "loop_feed" /\ tx'.pc # "boot" =>
            tx'.pc = "loop_sleep" /\ tx'.wdt_elapsed = 0]_allvars
    /\ [][tx'.pc = "loop_sleep" => tx.pc \in {"loop_feed", "loop_sleep"}]_allvars
    /\ [][tx'.pc = "input" =>
            tx.pc \in {"loop_sleep", "input", "first"}]_allvars
\* an iteration in which no command came and no timer was due
C15_Witness ==
    /\ tx.pc = "loop_sleep"
    /\ tx.trace = <<"feed">>
    /\ tx.next_telemetry > 0
    /\ tx.next_display > 0

\* C16: every iteration of the receiver's core-0 loop feeds the watchdog:
\* the feed of line 471 is taken after the timeout test whatever the
\* packet, display and timeout branches did, it is the only way to the
\* sleep that ends the iteration, and that sleep is the only way back to
\* the head of the loop.
C16_RxLoopAlwaysFeeds ==
    /\ [][rx.pc = "feed" /\ rx'.pc # "feed" =>
            rx'.pc = "sleep" /\ rx'.wdt_elapsed = 0]_allvars
    /\ [][rx'.pc = "sleep" => rx.pc \in {"feed", "sleep"}]_allvars
    /\ [][rx'.pc = "feed" => rx.pc \in {"check", "feed"}]_allvars
    /\ [][rx'.pc = "recv" => rx.pc \in {"sleep", "recv", "enable"}]_allvars
\* the feed has been taken in an iteration that decoded no packet and
\* found the last packet older than the communication timeout
C16_Witness ==
    /\ rx.pc = "sleep"
    /\ rx.wdt_elapsed = 0
    /\ rx.telemetry_received
    /\ rx.now - rx.last_telemetry_time > Ticks(RX_COMM_TIMEOUT_MS)

\* --------------------- storage harness (StoreSpec) ---------------------
\* load_persist_data, save_persist_data and load_persist_data again, on
\* every content of the flash sector and with interrupts on or off at
\* the call
BadMagics == {"FFFFFFFF", "00000000"}
StoreRecords ==
    [magic : {FLASH_MAGIC} \cup BadMagics,
     boot_count : 0..MaxBoots, wdt_count : 0..1,
     last_reset : 0..1, last_fault : 0..FALHA_UART_TRAVADA]

StoreInit ==
    /\ \E fl \in StoreRecords, irq \in BOOLEAN :
          tx = [PowerOn(fl) EXCEPT !.pc = "st_load", !.irq_on = irq]
    /\ uart_tx = <<>>
    /\ CodecIdle /\ DecInit /\ RxIdle

StLoad   == TxStep("st_load",
                   CallSave(load_persist_data(tx), "st_reload"), <<>>)
StReload == TxStep("st_reload",
                   [load_persist_data(tx) EXCEPT !.pc = "st_done"], <<>>)

StoreNext ==
    \/ StLoad \/ StReload
    \/ TxSaveBegin \/ TxSaveErase \/ TxSaveProgram \/ TxSaveEnd
StoreSpec == StoreInit /\ [][StoreNext]_allvars

\* the record a store without the magic tag is read as
DefaultRecord ==
    [magic |-> FLASH_MAGIC, boot_count |-> 0, wdt_count |-> 0,
     last_reset |-> 0, last_fault |-> 0]

\* C17: load_persist_data always returns; with the magic tag in flash the
\* record in memory equals the stored record field for field, otherwise
\* it is the tag with boot_count, wdt_count, last_reset and last_fault 0.
C17_LoadTotal ==
    /\ [][tx.pc = "st_load" /\ tx'.pc # "st_load" =>
            tx'.persist = IF tx.flash.magic = FLASH_MAGIC
                          THEN tx.flash ELSE DefaultRecord]_allvars
    /\ [](tx.pc = "st_load" => ENABLED StLoad)
\* a store without the tag whose other fields are not zero has been loaded
C17_Witness ==
    /\ tx.pc = "save_begin"
    /\ tx.flash.magic \in BadMagics
    /\ tx.flash.boot_count = 2
    /\ tx.flash.last_fault = 3
    /\ tx.persist = DefaultRecord

\* C18: save_persist_data switches interrupts off before the erase, they
\* stay off through erase and program, the sector is erased before it is
\* programmed with the record, the state interrupts had at the call is
\* restored afterwards, and flash never changes with interrupts on.
C18_SaveIrqOff ==
    /\ [](tx.pc \in {"save_erase", "save_program", "save_end"} => ~tx.irq_on)
    /\ [][tx'.flash # tx.flash =>
            tx.pc \in {"save_erase", "save_program"} /\ ~tx.irq_on]_allvars
    /\ [][tx.pc = "save_begin" /\ tx'.pc # tx.pc =>
            tx'.pc = "save_erase" /\ tx'.ints = tx.irq_on]_allvars
    /\ [][tx.pc = "save_erase" /\ tx'.pc # tx.pc =>
            /\ tx'.pc = "save_program"
            /\ tx'.flash = ErasedFlash
            /\ tx'.ints = tx.ints]_allvars
    /\ [][tx.pc = "save_program" /\ tx'.pc # tx.pc =>
            /\ tx'.pc = "save_end"
            /\ tx'.flash = tx.persist
            /\ tx'.ints = tx.ints]_allvars
    /\ [][tx.pc = "save_end" /\ tx'.pc # tx.pc =>
            tx'.irq_on = tx.ints /\ tx'.flash = tx.flash]_allvars
\* a save called with interrupts off has returned with interrupts off
C18_Witness ==
    /\ tx.pc = "st_reload"
    /\ ~tx.irq_on
    /\ tx.flash = tx.persist
    /\ tx.trace = <<"save">>

\* C19: load, save, load again gives the record of the first load: the
\* save leaves the record in memory alone, the second load returns what
\* the first returned, and flash then holds that record; for a store
\* with the magic tag and for one without.
C19_LoadSaveLoad ==
    /\ [][tx.pc \in {"save_begin", "save_erase", "save_program", "save_end"}
            => tx'.persist = tx.persist]_allvars
    /\ [][tx.pc = "st_reload" /\ tx'.pc = "st_done" =>
            tx'.persist = tx.persist]_allvars
    /\ [](tx.pc = "st_done" => tx.flash = tx.persist)
C19_Witness ==
    /\ tx.pc = "st_done"
    /\ tx.persist.magic = FLASH_MAGIC
    /\ tx.persist.boot_count = 2
    /\ tx.persist.wdt_count = 1
    /\ tx.persist.last_fault = 3

\* positions of the control loop and of a command in progress
LoopPcs == {"input", "loop_tel", "loop_led", "loop_disp", "loop_feed",
            "loop_sleep", "cmd_begin", "cmd_ir", "cmd_feed", "cmd_done"}

\* C20: between two resets the record is programmed to flash once in the
\* boot sequence and at most once more, in a fault entry: in the control
\* loop and in every command the count of writes is exactly one, it is
\* never above two, and flash changes only inside save_persist_data
\* called from the boot diagnosis or from a fault entry.
C20_FlashWrites ==
    /\ [](tx.flash_writes <= 2)
    /\ [](tx.pc \in LoopPcs => tx.flash_writes = 1)
    /\ [](tx.pc = "hang" => tx.flash_writes = 2)
    /\ [][tx'.flash # tx.flash =>
            /\ tx.pc \in {"save_erase", "save_program"}
            /\ tx.ret \in {"bootshow", "f_scratch"}
            /\ tx.ret = "bootshow" => tx.flash_writes = 0
            /\ tx.ret = "f_scratch" => tx.flash_writes = 1]_allvars
C20_Witness ==
    /\ tx.pc = "hang"
    /\ tx.flash_writes = 2
    /\ tx.ir_operation_counter = 2
    /\ tx.flash.last_fault = FALHA_LOOP_INFINITO

\* --------------------- codec harness (CodecSpec) ---------------------
\* Values send_telemetry can read.  The payload samples contain the bytes
\* 0xAA and 0x55 (170, 85, 0x55AA55AA).
CodecInputs ==
    [ current_state        : {STATE_OFF, STATE_FAN_2},
      last_command_sent    : {STATE_TEMP_22},
      ir_operation_pending : BOOLEAN,
      uptime_ms            : {0, 1437226410},
      wdt_count            : {0, 170},
      last_fault           : {0, FALHA_UART_TRAVADA},
      ir_operation_counter : {85} ]

\* line noise: no byte of it is the header sentinel
NoiseBytes == {TELEM_FOOTER, 88}
NoiseSeqs  == UNION { [1..n -> NoiseBytes] : n \in 0..MaxNoise }
BadFooters == {0, 84, TELEM_HEADER, 255}
\* a stray header sentinel, then noise, ahead of the frame
SpurSeqs   == { <<TELEM_HEADER>> \o n : n \in NoiseSeqs }

Scenarios ==
    [kind : {"clean"}, pre : NoiseSeqs, post : NoiseSeqs, arg : {0}]
    \cup [kind : {"cksum"}, pre : {<<>>}, post : {<<>>}, arg : 0..7]
    \cup [kind : {"footer"}, pre : {<<>>}, post : {<<>>}, arg : BadFooters]
    \cup [kind : {"spur"}, pre : SpurSeqs, post : {<<>>}, arg : {0}]

\* byte b with bit k inverted
FlipBit(b, k) == IF (b \div (2 ^ k)) % 2 = 1 THEN b - 2 ^ k ELSE b + 2 ^ k

\* what the line delivers for a frame under a scenario
Wire(frame, scn) ==
    CASE scn.kind \in {"clean", "spur"} -> scn.pre \o frame \o scn.post
      [] scn.kind = "cksum"  ->
            [frame EXCEPT ![PKT_SIZE - 1] = FlipBit(frame[PKT_SIZE - 1], scn.arg)]
      [] scn.kind = "footer" -> [frame EXCEPT ![PKT_SIZE] = scn.arg]

CodecInit ==
    /\ cd_in \in CodecInputs
    /\ cd_scn \in Scenarios
    /\ cd_frame = <<>>
    /\ cd_stream = <<>>
    /\ cd_pos = 0
    /\ cd_rd = 0
    /\ cd_out = <<>>
    /\ cd_ret = FALSE
    /\ DecInit
    /\ TxIdle
    /\ RxIdle

\* the transmitter calls send_telemetry once; the frame goes onto the line
CodecSend ==
    /\ cd_frame = <<>>
    /\ cd_frame' = send_telemetry(cd_in)
    /\ cd_stream' = Wire(send_telemetry(cd_in), cd_scn)
    /\ UNCHANGED <<cd_in, cd_scn, cd_pos, cd_rd, cd_out, cd_ret>>
    /\ UNCHANGED <<decvars, txvars, rxvars>>

\* one more byte of the stream becomes readable in the receiver's UART
CodecArrive ==
    /\ cd_frame # <<>>
    /\ cd_pos < Len(cd_stream)
    /\ cd_pos - cd_rd < MaxBurst
    /\ cd_pos' = cd_pos + 1
    /\ UNCHANGED <<cd_in, cd_scn, cd_frame, cd_stream, cd_rd, cd_out, cd_ret>>
    /\ UNCHANGED <<decvars, txvars, rxvars>>

\* one call of receive_telemetry_packet on whatever is readable
CodecCall ==
    /\ cd_frame # <<>>
    /\ LET r == receive_telemetry_packet(
                    [buf |-> rx_buffer, idx |-> rx_index, synced |-> synced],
                    SubSeq(cd_stream, cd_rd + 1, cd_pos))
       IN /\ rx_buffer' = r.buf
          /\ rx_index' = r.idx
          /\ synced' = r.synced
          /\ cd_rd' = cd_rd + r.used
          /\ cd_ret' = r.ok
          /\ cd_out' = IF r.ok THEN Append(cd_out, PacketOf(r.buf)) ELSE cd_out
    /\ UNCHANGED <<cd_in, cd_scn, cd_frame, cd_stream, cd_pos>>
    /\ UNCHANGED <<txvars, rxvars>>

CodecNext == CodecSend \/ CodecArrive \/ CodecCall

CodecSpec == CodecInit /\ [][CodecNext]_allvars

\* the transmitter on its own
Init == TxInit /\ CodecIdle /\ DecInit /\ RxIdle
Next == TxNext
Spec == Init /\ [][Next]_allvars

\* --------------------- claims about the transmitter ---------------------
\* the part of the trace after the fault path was entered, display aside
RECURSIVE AfterFault(_)
AfterFault(tr) ==
    IF tr = <<>> THEN <<>>
    ELSE IF \E i \in 1..Len(tr) : tr[i] = "fault"
         THEN AfterFault(Tail(tr))
         ELSE SelectSeq(tr, LAMBDA e : e # "show")

\* the fault code of each path, as the claims state it
CodeOf(path) == CASE path = "loop" -> 1 [] path = "temp22" -> 2
                  [] path = "uart" -> 3 [] OTHER -> 0

\* C1: in each of the three fault paths the transmitter, before the
\* terminal loop, feeds the watchdog, sets persist.last_fault to the fault
\* code, saves the record to flash, writes the code to scratch word 1,
\* sends one telemetry packet carrying the code and waits a fixed delay,
\* in this order, no step skipped.
C1_FaultEntryOrder ==
    /\ tx.pc = "hang" =>
          /\ tx.fault \in {"loop", "temp22", "uart"}
          /\ AfterFault(tx.trace) =
                <<"feed", "set_fault", "save", "scratch", "send", "delay">>
          /\ tx.persist.last_fault = CodeOf(tx.fault)
          /\ tx.flash = tx.persist
          /\ tx.scratch[2] = CodeOf(tx.fault)
    /\ tx.pc = "f_delay" =>
          /\ Len(uart_tx) = PKT_SIZE
          /\ PacketOf(uart_tx).last_fault = CodeOf(tx.fault)
          /\ uart_tx[PKT_SIZE - 1] = calculate_checksum_rx(uart_tx)
          /\ AfterFault(tx.trace) =
                <<"feed", "set_fault", "save", "scratch", "send">>
C1_Witness ==
    /\ tx.pc = "hang"
    /\ tx.fault = "temp22"
    /\ tx.persist.boot_count = 2

\* Time does not stand still in a terminal loop, and the watchdog hardware
\* resets the chip once its timer has run out.
TxHangTick == TxStep("hang", HangRound(tx, 1),
                     IF tx.fault = "uart" THEN StuckBytes ELSE <<>>)
LiveSpec == Spec /\ WF_allvars(TxHangTick) /\ WF_allvars(WatchdogReset)

\* C2: once in a terminal fault loop the transmitter never feeds the
\* watchdog, never handles a command, never sends a valid packet and never
\* returns to the control loop; the state is left only by a reset, a
\* watchdog reset happens only when the 5000 ms timeout has run out, and a
\* reset does eventually happen.
HangStepOK ==
    tx.pc = "hang" =>
        \/ /\ tx'.pc = "hang"
           /\ tx'.wdt_elapsed >= tx.wdt_elapsed
           /\ tx'.trace = tx.trace
           /\ ~ValidPacket(uart_tx')
           /\ [tx' EXCEPT !.wdt_elapsed = 0, !.next_telemetry = 0,
                          !.next_led = 0, !.next_display = 0]
              = [tx EXCEPT !.wdt_elapsed = 0, !.next_telemetry = 0,
                          !.next_led = 0, !.next_display = 0]
        \/ /\ tx'.pc = "boot"
           /\ tx'.wdt_caused => tx.wdt_elapsed = Ticks(5000)
C2_FaultTerminal ==
    /\ [][HangStepOK]_allvars
    /\ (tx.pc = "hang") ~> (tx.pc = "boot")
C2_Witness ==
    /\ tx.pc = "hang"
    /\ tx.fault = "uart"
    /\ tx.wdt_elapsed = Ticks(5000)
    /\ uart_tx = StuckBytes

\* C3: after fault c and the watchdog reset that follows it, the next
\* boot's diagnostic sequence leaves last_reset = 1 and last_fault = c in
\* the record, in RAM and in flash.
DiagDone(t) ==
    /\ t.pc \notin {"boot", "load", "diag"}
    /\ t.pc \in {"save_begin", "save_erase", "save_program", "save_end"}
          => t.ret # "bootshow"
C3_FaultSurvivesReset ==
    (tx.hang_fault # "none" /\ DiagDone(tx) /\ tx.fault = "none") =>
        /\ tx.reboot_wdt
        /\ tx.persist.last_reset = 1
        /\ tx.persist.last_fault = CodeOf(tx.hang_fault)
        /\ tx.persist.magic = FLASH_MAGIC
        /\ tx.flash = tx.persist
C3_Witness ==
    /\ tx.hang_fault = "temp22"
    /\ tx.pc = "bootshow"
    /\ tx.flash.last_reset = 1
    /\ tx.flash.last_fault = 2

\* C4: the watchdog runs out only in the terminal loop of a fault path.
\* Outside it the time since the last feed stays below the timeout, the
\* program always has a next step, and every watchdog reset was taken
\* from a terminal loop.
C4_NoSpuriousReset ==
    /\ tx.pc # "hang" => (tx.wdt_elapsed < WdtTicks /\ ~Expired(tx))
    /\ tx.wdt_caused => tx.hang_fault # "none"
    /\ tx.pc \in {"input", "loop_tel", "loop_led", "loop_disp", "loop_feed",
                  "loop_sleep"} => tx.wdt_on
C4_Witness ==
    /\ tx.pc = "cmd_feed"
    /\ tx.wdt_elapsed = MaxIrTicks
    /\ tx.ir_operation_counter = MaxOps - 1
    /\ tx.current_state = STATE_FAN_2

\* --------------------- claims about the codec ---------------------
\* every stream byte has been read by the decoder
AllRead == cd_frame # <<>> /\ cd_rd = Len(cd_stream)

\* C5: every packet send_telemetry writes is 22 bytes long, starts with
\* 0xAA, ends with 0x55, and byte 20 is the sum of bytes 0..19 modulo 256,
\* whatever the state, command, in-flight flag, uptime, counters and fault.
C5_PacketWellFormed ==
    cd_frame # <<>> =>
        /\ Len(cd_frame) = 22
        /\ cd_frame[1] = 170
        /\ cd_frame[22] = 85
        /\ cd_frame[21] = SumSeq([i \in 1..20 |-> cd_frame[i]]) % 256
        /\ \A i \in 1..22 : cd_frame[i] \in 0..255
C5_Witness ==
    /\ cd_frame # <<>>
    /\ cd_in.ir_operation_pending
    /\ cd_in.uptime_ms = 1437226410
    /\ cd_in.last_fault = FALHA_UART_TRAVADA
    /\ cd_in.wdt_count = 170

\* C6: round trip.  The 22 bytes of an encoded packet, fed in order to an
\* unsynchronized decoder, make it emit exactly one packet, and each field
\* of that packet is the value the encoder was given.
C6_RoundTrip ==
    (cd_scn.kind = "clean" /\ cd_scn.pre = <<>> /\ cd_scn.post = <<>>) =>
        /\ Len(cd_out) <= 1
        /\ AllRead => Len(cd_out) = 1
        /\ cd_out # <<>> =>
              /\ cd_out[1].header = TELEM_HEADER
              /\ cd_out[1].footer = TELEM_FOOTER
              /\ cd_out[1].ac_state = cd_in.current_state
              /\ cd_out[1].last_command = cd_in.last_command_sent
              /\ cd_out[1].ir_pending = (IF cd_in.ir_operation_pending THEN 1 ELSE 0)
              /\ cd_out[1].uptime_ms = cd_in.uptime_ms
              /\ cd_out[1].wdt_resets = cd_in.wdt_count
              /\ cd_out[1].last_fault = cd_in.last_fault
              /\ cd_out[1].ir_operations = cd_in.ir_operation_counter
C6_Witness ==
    /\ cd_scn.kind = "clean" /\ cd_scn.pre = <<>> /\ cd_scn.post = <<>>
    /\ AllRead
    /\ Len(cd_out) = 1
    /\ cd_in.uptime_ms = 1437226410
    /\ cd_in.wdt_count = 170
    /\ cd_in.last_fault = FALHA_UART_TRAVADA

\* C7: resynchronization.  Noise without 0xAA, one well-formed packet,
\* noise without 0xAA: the decoder emits that packet, once, and nothing
\* else, however the bytes are split across calls.
C7_Resync ==
    cd_scn.kind = "clean" =>
        /\ Len(cd_out) <= 1
        /\ cd_out # <<>> => cd_out[1] = PacketOf(cd_frame)
        /\ cd_rd >= Len(cd_scn.pre) + PKT_SIZE => Len(cd_out) = 1
        /\ cd_rd < Len(cd_scn.pre) + PKT_SIZE => cd_out = <<>>
C7_Witness ==
    /\ cd_scn.kind = "clean"
    /\ Len(cd_scn.pre) = MaxNoise /\ Len(cd_scn.post) = MaxNoise
    /\ cd_scn.pre[1] = TELEM_FOOTER
    /\ AllRead
    /\ Len(cd_out) = 1

\* C8: corruption rejection.  A frame with one bit of its checksum byte
\* flipped, or with a footer other than 0x55, is never emitted: every call
\* returns false and produces nothing.
C8_CorruptRejected ==
    cd_scn.kind \in {"cksum", "footer"} => (cd_out = <<>> /\ cd_ret = FALSE)
C8_Witness ==
    /\ cd_scn.kind = "cksum" /\ cd_scn.arg = 7
    /\ AllRead
    /\ ~synced /\ rx_index = 0
    /\ rx_buffer[PKT_SIZE] = TELEM_FOOTER

\* --------------------- claims about the boot record ---------------------
\* the step just taken is the boot diagnosis of lines 615-632
DiagStep == tx.pc = "diag" /\ tx'.pc = "save_begin"

\* C21: the boot diagnosis works on the record as loaded from flash and
\* runs with the watchdog off; it adds exactly one to boot_count; after a
\* watchdog reset it adds exactly one to wdt_count, sets last_reset to 1
\* and keeps last_fault; after any other reset it keeps wdt_count and sets
\* last_reset and last_fault to 0; the record is then saved: when the
\* boot screen is shown flash holds it.
C21_BootDiag ==
    /\ [](tx.pc = "diag" =>
            /\ ~tx.wdt_on
            /\ tx.persist = IF tx.flash.magic = FLASH_MAGIC
                             THEN tx.flash ELSE DefaultRecord)
    /\ [][DiagStep =>
            /\ tx'.ret = "bootshow"
            /\ tx'.persist.magic = tx.persist.magic
            /\ tx'.persist.boot_count = tx.persist.boot_count + 1
            /\ IF tx.wdt_caused
               THEN /\ tx'.persist.wdt_count = tx.persist.wdt_count + 1
                    /\ tx'.persist.last_reset = 1
                    /\ tx'.persist.last_fault = tx.persist.last_fault
               ELSE /\ tx'.persist.wdt_count = tx.persist.wdt_count
                    /\ tx'.persist.last_reset = 0
                    /\ tx'.persist.last_fault = 0]_allvars
    /\ [](tx.pc \in {"bootshow", "wdt_enable"} =>
            ~tx.wdt_on /\ tx.flash = tx.persist)
\* the second watchdog-caused boot in a row has been diagnosed and saved
C21_Witness ==
    /\ tx.pc = "bootshow"
    /\ tx.reboot_wdt
    /\ tx.flash.boot_count = 3
    /\ tx.flash.wdt_count = 2
    /\ tx.flash.last_fault = FALHA_UART_TRAVADA

\* a fault entry has changed persist.last_fault and has not yet reached
\* the store to scratch[1] (lines 316-318, 399-401, 422-424)
FaultWindow ==
    \/ tx.pc = "f_scratch"
    \/ /\ tx.pc \in {"save_begin", "save_erase", "save_program", "save_end"}
       /\ tx.ret = "f_scratch"

\* C22: from the boot diagnosis on, scratch word 0 equals
\* persist.wdt_count and scratch word 1 equals persist.last_fault, except
\* inside a fault entry between the change of the record and the store
\* to the scratch word; whenever a telemetry packet has just been sent
\* the two are equal, and the packet reports these values.
C22_ScratchInSync ==
    /\ [](tx.pc \notin {"boot", "load", "diag"} /\ ~FaultWindow =>
            tx.scratch = <<tx.persist.wdt_count, tx.persist.last_fault>>)
    /\ [](ValidPacket(uart_tx) =>
            /\ tx.scratch = <<tx.persist.wdt_count, tx.persist.last_fault>>
            /\ PacketOf(uart_tx).wdt_resets = tx.scratch[1]
            /\ PacketOf(uart_tx).last_fault = tx.scratch[2])
\* the last packet of the 'F' fault has been sent after a watchdog reboot
C22_Witness ==
    /\ tx.pc = "f_delay"
    /\ ValidPacket(uart_tx)
    /\ tx.fault = "loop"
    /\ tx.scratch = <<1, FALHA_LOOP_INFINITO>>
    /\ tx.flash.last_fault = FALHA_LOOP_INFINITO

\* --------------------- periodic telemetry ---------------------
\* a sleep_ms(10) during which the 500 ms clock tick falls
TxLoopSleepTick == TxStep("loop_sleep", LoopSleep(tx, 1), <<>>)
\* the control loop on its own: inputs that enter no fault path, no reset
TxInputNoFault ==
    \E ch \in Inputs :
        /\ ToUpper(ch) \notin {"3", "F", "U"}
        /\ ToUpper(ch) \in {"1", "2", "4", "5", "6"}
              => tx.ir_operation_counter < MaxOps
        /\ TxStep("input", process_uart_input(tx, ch), <<>>)
LoopInit ==
    /\ \E cs \in ValidTargets, cnt \in 0..MaxOps :
          /\ cnt = 0 => cs = STATE_OFF
          /\ tx = Running("input", cs, cnt, cs, 0)
    /\ uart_tx = <<>>
    /\ CodecIdle /\ DecInit /\ RxIdle
LoopNext ==
    \/ TxInputNoFault
    \/ TxCmdBegin \/ TxCmdIr \/ TxCmdFeed \/ TxCmdDone
    \/ TxLoopTelemetry \/ TxLoopLed \/ TxLoopDisplay \/ TxLoopFeed
    \/ TxLoopSleep
\* the processor executes the next statement of the loop (what the
\* statement does to the program state; what it writes is not looked at)
TxLoopRun ==
    /\ ~Expired(tx)
    /\ \/ /\ tx.pc = "input"
          /\ \E ch \in Inputs :
                /\ ToUpper(ch) \notin {"3", "F", "U"}
                /\ ToUpper(ch) \in {"1", "2", "4", "5", "6"}
                      => tx.ir_operation_counter < MaxOps
                /\ tx' = process_uart_input(tx, ch)
       \/ tx.pc = "cmd_begin" /\ tx' = CmdBegin(tx)
       \/ tx.pc = "cmd_ir" /\ \E d \in 0..MaxIrTicks : tx' = CmdIr(tx, d)
       \/ tx.pc = "cmd_feed" /\ \E d \in Durations(100) : tx' = CmdFeed(tx, d)
       \/ tx.pc = "cmd_done" /\ tx' = CmdDone(tx)
       \/ tx.pc = "loop_tel" /\ tx' = LoopTelemetry(tx)
       \/ tx.pc = "loop_led" /\ tx' = LoopLed(tx)
       \/ tx.pc = "loop_disp" /\ \E d \in Durations(25) : tx' = LoopDisplay(tx, d)
       \/ tx.pc = "loop_feed" /\ tx' = LoopFeed(tx)
       \/ tx.pc = "loop_sleep" /\ \E d \in Durations(10) : tx' = LoopSleep(tx, d)
\* the program keeps running and time keeps passing: of the sleeps that
\* end the iterations, again and again one spans a clock tick
LoopLiveSpec ==
    LoopInit /\ [][LoopNext]_allvars
    /\ WF_tx(TxLoopRun) /\ SF_allvars(TxLoopSleepTick)

\* C23: in the control loop a packet is sent exactly when the telemetry
\* deadline has passed, and the deadline is then re-armed one interval
\* later; a change of the appliance state comes with a packet that
\* carries the new state, before the next input is read; and as long as
\* the transmitter stays in its control loop packets are sent again and
\* again.
C23_TelemetryPeriodic ==
    /\ [][tx.pc = "loop_tel" /\ tx'.pc = "loop_led" =>
            IF tx.next_telemetry <= 0
            THEN /\ ValidPacket(uart_tx')
                 /\ PacketOf(uart_tx').ac_state = tx.current_state
                 /\ tx'.next_telemetry = Ticks(TELEMETRY_INTERVAL_MS)
            ELSE /\ uart_tx' = <<>>
                 /\ tx'.next_telemetry = tx.next_telemetry]_allvars
    /\ [][tx'.current_state # tx.current_state /\ tx'.pc # "boot" =>
            /\ tx.pc = "cmd_done" /\ tx'.pc = "loop_tel"
            /\ ValidPacket(uart_tx')
            /\ PacketOf(uart_tx').ac_state = tx'.current_state]_allvars
    /\ []<>ValidPacket(uart_tx)
\* a periodic packet has just been sent in an iteration without a command
C23_Witness ==
    /\ tx.pc = "loop_led"
    /\ ValidPacket(uart_tx)
    /\ tx.trace = <<"send", "feed">>
    /\ tx.current_state = STATE_TEMP_20
    /\ PacketOf(uart_tx).ac_state = STATE_TEMP_20

\* --------------------- claims about the decoder's framing ---------------------
\* the decoder after the bytes of a sequence, one loop pass each
RECURSIVE DecodeSeq(_, _)
DecodeSeq(d, bytes) ==
    IF bytes = <<>> THEN d
    ELSE DecodeSeq(DecodeByte([buf |-> d.buf, idx |-> d.idx,
                               synced |-> d.synced], Head(bytes)),
                   Tail(bytes))
\* the bytes the call just made has read
BytesRead == SubSeq(cd_stream, cd_rd + 1, cd_rd')
Decoder == [buf |-> rx_buffer, idx |-> rx_index, synced |-> synced]

\* C24: the byte that completes a 22-byte frame, accepted or rejected,
\* leaves the decoder unsynchronized with count 0, and the byte after it
\* starts a frame only if it is 0xAA; no byte is read twice, so a valid
\* packet swallowed by a frame that began at a stray 0xAA is not emitted.
C24_FrameEndsUnsynced ==
    /\ [](~synced => rx_index = 0)
    /\ [][ /\ cd_rd' >= cd_rd
           /\ \A i \in 1..Len(BytesRead) :
                LET b == DecodeSeq(Decoder, SubSeq(BytesRead, 1, i - 1))
                    n == DecodeByte([buf |-> b.buf, idx |-> b.idx,
                                     synced |-> b.synced], BytesRead[i])
                IN (b.synced /\ b.idx = PKT_SIZE - 1) =>
                      /\ ~n.synced /\ n.idx = 0
                      /\ i = Len(BytesRead) => (~synced' /\ rx_index' = 0)
                      /\ i < Len(BytesRead) =>
                            LET m == DecodeByte([buf |-> n.buf, idx |-> n.idx,
                                                 synced |-> n.synced],
                                                BytesRead[i + 1])
                            IN IF BytesRead[i + 1] = TELEM_HEADER
                               THEN m.synced /\ m.idx = 1
                               ELSE ~m.synced /\ m.idx = 0 ]_allvars
    /\ [](cd_scn.kind = "spur" => cd_out = <<>>)
C24_Witness ==
    /\ cd_scn.kind = "spur"
    /\ Len(cd_scn.pre) = 1 + MaxNoise
    /\ cd_rd = Len(cd_scn.pre) + PKT_SIZE
    /\ cd_pos = cd_rd
    /\ cd_out = <<>>
    /\ ValidPacket(SubSeq(cd_stream, Len(cd_scn.pre) + 1, cd_rd))
    /\ rx_buffer[1] = TELEM_HEADER /\ rx_buffer[2] = TELEM_FOOTER

\* C25: a call that returns a packet returns the last 22 bytes read, in
\* order, with first byte 0xAA, last byte 0x55 and byte 20 the sum of
\* bytes 0..19 modulo 256; the index the next byte is stored at stays
\* within 0..21, and within 1..21 while a frame is being accumulated.
C25_EmittedIsFrame ==
    /\ rx_index \in 0..21
    /\ synced => rx_index \in 1..21
    /\ cd_ret =>
          /\ cd_rd >= 22
          /\ rx_buffer = SubSeq(cd_stream, cd_rd - 21, cd_rd)
          /\ rx_buffer[1] = 170
          /\ rx_buffer[22] = 85
          /\ rx_buffer[21] = SumSeq(SubSeq(rx_buffer, 1, 20)) % 256
          /\ cd_out # <<>>
          /\ cd_out[Len(cd_out)] = PacketOf(rx_buffer)
C25_Witness ==
    /\ cd_ret
    /\ cd_scn.kind = "clean" /\ Len(cd_scn.pre) = MaxNoise
    /\ cd_rd = MaxNoise + PKT_SIZE
    /\ rx_index = 0 /\ ~synced
    /\ cd_in.wdt_count = 170

\* --------------------- claims about the 22 degree command ---------------------
\* the step just taken is lines 299-311 for the 22 degree command
Temp22Step == tx.pc = "cmd_begin" /\ tx.new_state = STATE_TEMP_22
              /\ tx'.pc \notin {"cmd_begin", "boot"}
\* the transmitter is in the 22 degree fault path
InTemp22Path == tx.fault = "temp22"

\* C26: the appliance state is never Temp22.  The command for it sets the
\* last command to Temp22 and the in-flight flag, and goes to the fault
\* path; from there to the reset neither the appliance state nor the
\* operation counter changes.
C26_NeverTemp22 ==
    /\ [](tx.current_state # STATE_TEMP_22)
    /\ [][Temp22Step =>
            /\ tx'.last_command_sent = STATE_TEMP_22
            /\ tx'.ir_operation_pending
            /\ tx'.fault = "temp22" /\ tx'.pc = "f_feed"
            /\ tx'.current_state = tx.current_state
            /\ tx'.ir_operation_counter = tx.ir_operation_counter]_allvars
    /\ [][(InTemp22Path /\ tx'.pc # "boot") =>
            /\ tx'.fault = "temp22"
            /\ tx'.pc \in {"f_feed", "f_set", "f_scratch", "f_show", "f_send",
                           "f_delay", "hang", "save_begin", "save_erase",
                           "save_program", "save_end"}
            /\ tx'.current_state = tx.current_state
            /\ tx'.ir_operation_counter = tx.ir_operation_counter
            /\ tx'.last_command_sent = STATE_TEMP_22
            /\ tx'.ir_operation_pending]_allvars
C26_Witness ==
    /\ tx.pc = "hang" /\ tx.fault = "temp22"
    /\ tx.last_command_sent = STATE_TEMP_22
    /\ tx.ir_operation_pending
    /\ tx.current_state = STATE_FAN_1
    /\ tx.ir_operation_counter = MaxOps

\* C27: a packet carries in-flight = 1 only when it is the packet of the
\* 22 degree fault path, which sends exactly one; the periodic packets,
\* the packet after a completed command, the first packet of a boot and
\* the final packets of the 'F' and 'U' paths carry in-flight = 0.
C27_InFlightOnlyTemp22 ==
    /\ [][ValidPacket(uart_tx') =>
            /\ tx.pc \in {"first", "loop_tel", "cmd_done", "f_send"}
            /\ PacketOf(uart_tx').ir_pending =
                  (IF tx.pc = "f_send" /\ tx.fault = "temp22" THEN 1 ELSE 0)
            /\ tx.pc = "f_send" => tx'.pc = "f_delay"]_allvars
    /\ [][(tx.pc \in {"f_delay", "hang"} /\ tx'.pc # "boot")
            => ~ValidPacket(uart_tx')]_allvars
C27_Witness ==
    /\ tx.pc = "f_delay" /\ tx.fault = "temp22"
    /\ ValidPacket(uart_tx)
    /\ PacketOf(uart_tx).ir_pending = 1
    /\ PacketOf(uart_tx).last_command = STATE_TEMP_22
    /\ PacketOf(uart_tx).ac_state = STATE_ON

\* --------------------- claims about the record across resets ---------------------
\* the step just taken sent a packet other than the final one of a fault path
StatusPacketStep == tx.pc \in {"first", "loop_tel", "cmd_done"}
                    /\ ValidPacket(uart_tx')
\* the chip is reset
ResetStep == tx.pc \notin {"boot", "load", "diag"} /\ tx'.pc = "boot"
\* watchdog resets the stored record counts
StoredWdt(t) == IF t.flash.magic = FLASH_MAGIC THEN t.flash.wdt_count ELSE 0

\* C28: in a boot that was caused by the watchdog, the first packet and
\* every periodic and post-command packet carry the code of the fault
\* that led to the latest reset; in a boot not caused by the watchdog
\* they carry 0.  The final packet of a fault path carries that path's
\* code, which is the code the packets of the next boot carry.
C28_FaultLatched ==
    /\ [][StatusPacketStep =>
            /\ tx.fault = "none"
            /\ PacketOf(uart_tx').last_fault =
                  (IF tx.reboot_wdt THEN CodeOf(tx.hang_fault) ELSE 0)
            /\ tx.reboot_wdt => tx.hang_fault \in {"loop", "temp22", "uart"}
            /\ ~tx.reboot_wdt => tx.hang_fault = "none"]_allvars
    /\ [][(tx.pc = "f_send" /\ ValidPacket(uart_tx')) =>
            PacketOf(uart_tx').last_fault = CodeOf(tx.fault)]_allvars
    /\ [][(ResetStep /\ tx'.wdt_caused) =>
            (tx.pc = "hang" /\ tx'.hang_fault = tx.fault)]_allvars
C28_Witness ==
    /\ tx.pc = "loop_led"
    /\ tx.reboot_wdt /\ tx.hang_fault = "uart"
    /\ tx.persist.wdt_count = 2
    /\ ValidPacket(uart_tx)
    /\ PacketOf(uart_tx).last_fault = FALHA_UART_TRAVADA
    /\ PacketOf(uart_tx).wdt_resets = 2
\* C28 as stated, the code c fixed at the first watchdog-caused reboot:
\* the packets of a watchdog-caused boot carry the code of the fault
\* before it, and a further watchdog-caused reset leaves that code as it
\* was.
C28_LatchHeldAcrossResets ==
    /\ [][StatusPacketStep =>
            PacketOf(uart_tx').last_fault =
                (IF tx.reboot_wdt THEN CodeOf(tx.hang_fault) ELSE 0)]_allvars
    /\ [][(ResetStep /\ tx.reboot_wdt /\ tx'.wdt_caused) =>
            tx'.hang_fault = tx.hang_fault]_allvars

\* C29: boot_count and wdt_count never decrease from one boot to the
\* next: the counts the boot after a reset arrives at (the stored ones,
\* plus one) are not below the counts of the boot the reset ended; and
\* wdt_count <= boot_count once the boot diagnosis has run.
C29_CountersMonotone ==
    /\ [](DiagDone(tx) => tx.persist.wdt_count <= tx.persist.boot_count)
    /\ [][ResetStep =>
            /\ StoredBoots(tx') + 1 >= tx.persist.boot_count
            /\ StoredWdt(tx') + (IF tx'.wdt_caused THEN 1 ELSE 0)
                  >= tx.persist.wdt_count]_allvars
\* the sector is erased and not yet programmed, the record in RAM counts
\* three boots and one watchdog reset
C29_Witness ==
    /\ tx.pc = "save_program"
    /\ tx.flash = ErasedFlash
    /\ tx.persist.boot_count = 3
    /\ tx.persist.wdt_count = 1

\* --------------------- receiver with stalled cores (RxHangSpec) ---------------------
\* The receiver's code has no path that stops a core; a core stops when a
\* call it makes does not return (core 0) or the scanline queue is never
\* refilled (core 1, queue_remove_blocking).  Both are injected here.
RxLoopPcs == {"recv", "disp", "check", "feed", "sleep"}
RxExpired(r) == r.wdt_on /\ r.wdt_elapsed >= RxWdtTicks

\* core 0 stops somewhere in its loop
RxCore0Hang ==
    /\ rx.pc \in RxLoopPcs
    /\ RxStep(rx.pc, [rx EXCEPT !.pc = "stuck", !.log = "none"])
\* core 1 stops rendering
RxCore1Hang ==
    /\ rx.core1
    /\ rx' = [rx EXCEPT !.core1 = FALSE]
    /\ UNCHANGED <<line, decvars, cdvars, txvars>>
\* a tick passes with core 0 stopped.  A frame takes 1/60 s, so a core 1
\* that renders has fed the watchdog within the tick.
RxStuckTick ==
    /\ rx.pc = "stuck"
    /\ ~RxExpired(rx)
    /\ rx.now < MaxRxTicks + RxWdtTicks + 1
    /\ RxStep("stuck", IF rx.core1 THEN Core1Frame(RxPass(rx, 1))
                                   ELSE RxPass(rx, 1))
\* the watchdog timer ran out: the hardware resets the chip, scratch
\* register 0 survives
RxWatchdogReset ==
    /\ RxExpired(rx)
    /\ rx.scratch0 < MaxRxResets
    /\ rx' = [RxPowerOn EXCEPT !.wdt_caused = TRUE, !.scratch0 = rx.scratch0]
    /\ rx_buffer' = ZeroBuf /\ rx_index' = 0 /\ synced' = FALSE
    /\ UNCHANGED <<line, cdvars, txvars>>

RxHangNext ==
    \/ RxBoot \/ RxInit2 \/ RxEnableWd
    \/ RxRecv \/ RxDisp \/ RxCheck \/ RxFeedWd \/ RxSleepMs
    \/ RxCore1
    \/ RxCore0Hang \/ RxCore1Hang \/ RxStuckTick \/ RxWatchdogReset
RxHangInit == RxIdle /\ DecInit /\ CodecIdle /\ TxIdle
RxHangSpec == RxHangInit /\ [][RxHangNext]_allvars

\* C30: the receiver's one watchdog timer is restarted by the feed of
\* either core.  It resets the chip only after a full timeout in which
\* core 0 did not run its loop and core 1 did not render; with core 0
\* stopped and core 1 rendering the timer stays below the timeout and
\* the receiver is not reset, however long core 0 has been stopped.
C30_EitherCoreFeeds ==
    /\ []((rx.wdt_on /\ rx.core1) => rx.wdt_elapsed < RxWdtTicks)
    /\ []((rx.wdt_on /\ rx.pc \in RxLoopPcs) => rx.wdt_elapsed < RxWdtTicks)
    /\ [][(rx.pc # "boot" /\ rx'.pc = "boot") =>
            /\ rx.wdt_on /\ rx.wdt_elapsed = RxWdtTicks
            /\ rx.pc = "stuck" /\ ~rx.core1
            /\ rx'.wdt_caused]_allvars
    /\ [][(rx.pc = "stuck" /\ rx.core1 /\ rx'.core1) =>
            (rx'.pc = "stuck" /\ rx'.wdt_elapsed = 0)]_allvars
\* core 0 has been stopped for longer than the timeout, core 1 renders
C30_Witness ==
    /\ rx.pc = "stuck"
    /\ rx.core1 /\ rx.wdt_on
    /\ rx.now = MaxRxTicks + RxWdtTicks + 1
    /\ rx.wdt_elapsed = 0
    /\ rx.scratch0 = 0

\* --------------------- transport-stuck fault on the line (StuckSpec) ---------------------
\* What trigger_uart_stuck_fault puts on the line: its final packet
\* (line 428), then the bytes of n rounds of its loop (line 433).
RECURSIVE StuckRounds(_)
StuckRounds(n) == IF n = 0 THEN <<>> ELSE StuckBytes \o StuckRounds(n - 1)

\* the globals the final packet is built from; the payload samples
\* contain 0xAA bytes (170, 0x55AA55AA)
StuckGlobals ==
    [ current_state        : {STATE_FAN_1},
      last_command_sent    : {STATE_FAN_1},
      ir_operation_pending : {FALSE},
      uptime_ms            : ClockSamples,
      wdt_count            : {0, 170},
      last_fault           : {FALHA_UART_TRAVADA},
      ir_operation_counter : {1} ]

\* what the receiver has on the line ahead of the final packet: nothing,
\* or a stray 0xAA and k more bytes that leave its decoder inside a frame
StrayLens == {0, 14, 17}
StrayHeads == {<<>>} \cup { <<TELEM_HEADER>> \o [i \in 1..k |-> 88] : k \in StrayLens }

\* the transmitter enters the fault: the final packet and the loop's
\* bytes go onto the line
StuckLineStart ==
    /\ cd_frame = <<>>
    /\ line = <<>>
    /\ \E g \in StuckGlobals, pre \in StrayHeads, n \in 1..MaxStuckRounds :
          /\ cd_in' = g
          /\ cd_frame' = send_telemetry(g)
          /\ cd_scn' = [kind |-> "stuck", pre |-> pre,
                        post |-> StuckRounds(n), arg |-> n]
          /\ cd_stream' = pre \o send_telemetry(g) \o StuckRounds(n)
          /\ line' = pre \o send_telemetry(g) \o StuckRounds(n)
    /\ UNCHANGED <<cd_pos, cd_rd, cd_out, cd_ret, rx, decvars, txvars>>

StuckNext ==
    \/ RxBoot \/ RxInit2 \/ RxEnableWd
    \/ RxRecv \/ RxDisp \/ RxCheck \/ RxFeedWd \/ RxSleepMs
    \/ StuckLineStart \/ LineDeliver
StuckInit == RxIdle /\ DecInit /\ CodecIdle /\ TxIdle
StuckSpec == StuckInit /\ [][StuckNext]_allvars

\* the final packet has passed: all that is still to be read was sent by
\* the loop
PastFinalPacket ==
    /\ cd_frame # <<>>
    /\ Len(rx.fifo) + Len(line) <= Len(cd_scn.post)

\* C31: once the final packet of the transport-stuck fault has passed,
\* the bytes its loop sends never make the decoder return a packet: the
\* receiver's packet counter and latest telemetry stay as they are.
C31_StuckBytesIgnored ==
    [][PastFinalPacket =>
         /\ rx'.telemetry_packet_count = rx.telemetry_packet_count
         /\ rx'.latest_telemetry = rx.latest_telemetry
         /\ rx'.telemetry_received = rx.telemetry_received
         /\ rx'.last_telemetry_time = rx.last_telemetry_time
         /\ rx.pc = "recv" => ~RecvResult.ok]_allvars
\* every byte has been read; a frame that began inside the final packet
\* ran on into the loop's bytes and was rejected
C31_Witness ==
    /\ cd_frame # <<>>
    /\ Len(cd_scn.pre) = 18
    /\ cd_in.wdt_count = 170
    /\ line = <<>> /\ rx.fifo = <<>>
    /\ rx.pc = "disp"
    /\ ~synced /\ rx_index = 0
    /\ rx_buffer[1] = TELEM_HEADER
    /\ rx_buffer[PKT_SIZE] = 88
    /\ rx_buffer[PKT_SIZE - 4] = TELEM_FOOTER
    /\ rx.telemetry_packet_count = 0
====
